---- MODULE Spec2Model ----
(***************************************************************************)
(* Migration job lifecycle of the mini-cloud controller and the submission *)
(* path of its scheduler:                                                  *)
(*   controller/app/migration/{api,helpers,tasks,lock,orchestrator}.py     *)
(*   controller/app/api/migrations.py                                      *)
(*   scheduler/{background,api_client,planner,policies}.py                 *)
(*                                                                         *)
(* Specifications.                                                         *)
(*   Spec        POST /migrations and the worker pool, as the code is      *)
(*               under src/.  The worker's pre-flight call                 *)
(*               orch.is_live_migratable (tasks.py:90) is made on          *)
(*               app.migration.orchestrator.MigrationOrchestrator, which   *)
(*               defines no such method, so the call raises and the        *)
(*               worker marks the record failed (tasks.py:91-99).          *)
(*   SpecPool    create_and_enqueue_migration and the same worker pool.    *)
(*   SpecSched   POST /migrations, the worker pool and the scheduler's     *)
(*               submit_plan.                                              *)
(*   SpecLinked  the worker with the pre-flight helper resolved to the     *)
(*               only is_live_migratable of the repository                 *)
(*               (migration_service/orchestrator.py:37-84), so that the    *)
(*               code after the pre-flight (tasks.py:101-141 and           *)
(*               MigrationOrchestrator.run) is exercised.                  *)
(*   SpecRetry   Spec with the exception path of the task wrapper          *)
(*               migrate_vm_task (tasks.py:156-179).                       *)
(*   SpecFinish  every path that writes a terminal status.                 *)
(*   SpecCreate  POST /migrations with any source_host and target_host.    *)
(*   SpecPlanner scheduler/planner.py: plan_rebalance and plan_emergency   *)
(*               called over time on snapshots of hosts and VMs.           *)
(*   SpecSelect  scheduler/policies.py: select_best_destination applied    *)
(*               once to arguments drawn by the initial state.             *)
(*   SpecEmergency plan_emergency on hosts that may hold four VMs.         *)
(*   SpecAlert   scheduler/background.py: handle_alert, from the fetch of  *)
(*               the snapshot to the throttle request or the submission.   *)
(*   SpecRun     the workers with both resolutions of the pre-flight and   *)
(*               the orchestrator, each worker finishing the task it has   *)
(*               begun (weak fairness of its steps).                       *)
(*   SpecFaults  SpecRun's steps with a database that may refuse a commit  *)
(*               inside MigrationOrchestrator.run.                         *)
(*   SpecSimulate the workers with an orchestrator built with              *)
(*               simulate=True.                                            *)
(*   SpecPreflight is_live_migratable applied once to parameters drawn by  *)
(*               the initial state.                                        *)
(*   SpecCancel  SpecRun's steps and callers asking for cancellation.      *)
(*   SpecCycle   scheduler/background.py: rounds of start_periodic, each    *)
(*               run_periodic_cycle followed by the sleep.                 *)
(*   SpecOverload the scheduler's is_host_overloaded and the controller's  *)
(*               host_is_overloaded applied to the same metric.            *)
(*   SpecReceive can_receive_vm applied once to arguments drawn by the     *)
(*               initial state, and plan_rebalance on a fixed example.     *)
(*   SpecDrain   periodic cycles whose plans bring a source host under     *)
(*               the thresholds.                                           *)
(*   SpecAlertCap SpecAlert with the controller answering the scheduler's  *)
(*               count request with any number up to the cap.              *)
(***************************************************************************)
EXTENDS Integers, Sequences, FiniteSets, TLC

\* ------------------------------------------------------------------ bounds
MaxMigrations == 3      \* rows the migrations table may hold
NumWorkers    == 3      \* parallel worker processes
NumRequests   == 2      \* POST /migrations requests issued
MaxPolls      == 2      \* poll iterations before POLL_TIMEOUT elapses
MaxPlan       == 2      \* proposals in a plan handed to submit_plan; largest max_plan
MaxTicks      == 2      \* steps the scheduler's clock makes

\* ------------------------------------------------------- program constants
MAX_CONCURRENT_MIGRATIONS == 2
max_retries == 3        \* tasks.py:151

\* scheduler/config.py; the weights 0.6, 0.3, 0.1 in tenths
HIGH_CPU_THRESHOLD == 80
LOW_CPU_THRESHOLD  == 60
HIGH_MEM_THRESHOLD == 85
LOW_MEM_THRESHOLD  == 70
MAX_EMERGENCY_MIGRATIONS_PER_HOST == 1
MIGRATION_COOLDOWN == 600
HOST_COOLDOWN      == 300
W_CPU  == 6
W_MEM  == 3
W_LOAD == 1

\* the clock is read in steps of one host cooldown
TickSeconds == HOST_COOLDOWN

NumVMs   == 3
VMs      == 1..NumVMs
Workers  == 1..NumWorkers
Requests == 1..NumRequests
MigIds   == 1..MaxMigrations

None == "None"

\* client_request_id values a caller may send: absent, the empty string, a key
ClientRequestIds == {None, "", "req-1"}

\* (source_host, target_host) pairs a caller may send
HostPairs == {<<"hA", "hB">>}

\* the hosts table
KnownHosts == {"hA", "hB"}

\* what a caller may put into source_host and target_host, both plain strings
\* of the payload (api.py:17-18): a valid pair, source = target, an unknown host
AnyHostPairs == HostPairs \cup {<<"hA", "hA">>, <<"hA", "hX">>}

\* progress values a polled task resource may report (orchestrator.py:119)
PollProgress == {30, 120}

\* the comment of models.py:75
LifecycleStatuses ==
    {"queued", "validating", "running", "finalizing", "completed", "failed", "cancelled"}
TerminalStatuses    == {"completed", "failed", "cancelled"}
NonTerminalStatuses == LifecycleStatuses \ TerminalStatuses

VARIABLES
    migrations,   \* the migrations table: sequence of rows, id = position
    queue,        \* broker: number of undelivered task messages per migration id
    lockKey,      \* redis: lock:migration:vm:<vm> -> worker that set it, 0 = absent
    wpc,          \* worker -> position in _run_migration_sync
    wmig,         \* worker -> migration id it was handed (0 = none)
    wpolls,       \* worker -> iterations of _poll_operation made
    req,          \* POST /migrations request -> its position, payload and response
    vmHost,       \* vms table: VM.host_id
    sched,        \* SchedulerService.running_migrations and what submit_plan saw
    runs,         \* observer: how often each migration was marked running
    overlapped,   \* observer: client_request_ids whose creates raced
    retries,      \* celery: retries scheduled so far for the task of each migration id
    timedOut,     \* observer: migration ids whose task gave up waiting for the lock
    now,          \* scheduler: time.time(), in seconds
    vm_cooldowns,                   \* Planner.vm_cooldowns: vm_uuid -> expiry, 0 = no entry
    host_cooldowns,                 \* Planner.host_cooldowns: host_id -> expiry, 0 = no entry
    emergency_migrations_per_host,  \* Planner.emergency_migrations_per_host
    call,         \* the last call of the planner or of a policy: arguments and result
    lastProposed, \* observer: when plan_rebalance last proposed each VM, -1 = never
    proposals,    \* observer: how often plan_rebalance proposed each VM
    lastEmergency \* observer: when plan_emergency last proposed for each host, -1 = never

migrationVars ==
    <<migrations, queue, lockKey, wpc, wmig, wpolls, req, vmHost, sched, runs, overlapped,
      retries, timedOut>>

plannerVars ==
    <<now, vm_cooldowns, host_cooldowns, emergency_migrations_per_host, call,
      lastProposed, proposals, lastEmergency>>

vars == <<migrationVars, plannerVars>>

\* ------------------------------------------------------------------ helpers
Ids == 1..Len(migrations)

\* Python truthiness of an Optional[str] (api.py:38 `if payload.client_request_id:`)
Truthy(s) == s # None /\ s # ""

SetRow(i, r) == [migrations EXCEPT ![i] = r]

\* Migration(...) as built at api.py:47-55 and helpers.py:30-40
NewRow(vm, pair, crid, status) ==
    [vm_id |-> vm, source_host |-> pair[1], target_host |-> pair[2],
     client_request_id |-> crid, status |-> status, progress |-> 0,
     finished_at |-> FALSE, error |-> None, tried |-> None]

\* migrate_vm_task_delay: send_task publishes one message; when send_task raises
\* after the broker took the message, apply_async publishes a second one; when
\* both raise, nothing is published and the exception reaches the caller.
EnqueueOutcomes == {"sent", "sent_twice", "raised"}
Published(outcome) ==
    CASE outcome = "sent" -> 1
      [] outcome = "sent_twice" -> 2
      [] OTHER -> 0

migrate_vm_task_delay(q, id, outcome) == [q EXCEPT ![id] = @ + Published(outcome)]

\* VMs are interchangeable: a caller names one already named or the next fresh one
UsedVMs == {migrations[i].vm_id : i \in Ids}
           \cup {req[r].vm : r \in {q \in Requests : req[q].pc = "insert"}}
Nameable(vm) == \A v \in VMs : v < vm => v \in UsedVMs

\* ------------------------------------------------------ POST /migrations
\* the lookup filtering on a column that never matches
ExistingByRequestId_NoMatch(crid) == 0

\* api.py:39-43: the first row carrying this client_request_id, 0 when none
ExistingByRequestId(crid) ==
    LET hits == {mid \in Ids : LET r == migrations[mid] IN r.client_request_id = crid}
    IN  IF hits = {} THEN 0 ELSE CHOOSE i \in hits : \A j \in hits : i <= j

\* api.py:24-45: resolve the VM, then the idempotency lookup
create_migration_lookup(r, vm, pair, crid) ==
    /\ req[r].pc = "new"
    /\ \A o \in Requests : o < r => req[o].pc # "new"
    /\ Nameable(vm)
    /\ LET existing == IF Truthy(crid) THEN ExistingByRequestId(crid) ELSE 0
           racing   == \E o \in Requests \ {r} :
                          req[o].pc = "insert" /\ req[o].crid = crid
       IN  /\ req' = [req EXCEPT ![r] =
                        [pc |-> IF existing # 0 THEN "done" ELSE "insert",
                         vm |-> IF existing # 0 THEN 0 ELSE vm, pair |-> pair, crid |-> crid,
                         resp |-> existing, inserted |-> FALSE]]
           /\ overlapped' = IF existing = 0 /\ racing /\ crid # None
                            THEN overlapped \cup {crid} ELSE overlapped
    /\ UNCHANGED <<migrations, queue, lockKey, wpc, wmig, wpolls, vmHost, plannerVars, sched, retries, timedOut, runs>>

\* api.py:47-74: insert the row, commit, enqueue; an enqueue error is swallowed
create_migration_insert(r, outcome) ==
    /\ req[r].pc = "insert"
    /\ Len(migrations) < MaxMigrations
    /\ LET id == Len(migrations) + 1
       IN  /\ migrations' = Append(migrations,
                                   NewRow(req[r].vm, req[r].pair, req[r].crid, "queued"))
           /\ queue' = migrate_vm_task_delay(queue, id, outcome)
           /\ req' = [req EXCEPT ![r].pc = "done", ![r].resp = id, ![r].inserted = TRUE,
                                  ![r].vm = 0]
    /\ UNCHANGED <<lockKey, wpc, wmig, wpolls, vmHost, plannerVars, sched, retries, timedOut, runs, overlapped>>

\* ------------------------------------------- create_and_enqueue_migration
\* helpers.py:21-24: a row of this VM whose status is "pending" or "running"
ExistingPendingOrRunning(vm) ==
    {mid \in Ids : LET r == migrations[mid] IN r.vm_id = vm /\ r.status \in {"pending", "running"}}

\* helpers.py:11-63
create_and_enqueue_migration(vm, pair, outcome) ==
    /\ Nameable(vm)
    /\ ExistingPendingOrRunning(vm) = {}
    /\ Len(migrations) < MaxMigrations
    /\ LET id  == Len(migrations) + 1
           row == NewRow(vm, pair, None, "pending")
       IN  IF outcome = "raised"
           THEN /\ migrations' = Append(migrations,
                       [row EXCEPT !.status = "failed", !.finished_at = TRUE,
                                   !.error = "enqueue_failed"])
                /\ queue' = queue
           ELSE /\ migrations' = Append(migrations, row)
                /\ queue' = migrate_vm_task_delay(queue, id, outcome)
    /\ UNCHANGED <<lockKey, wpc, wmig, wpolls, req, vmHost, plannerVars, sched, retries, timedOut, runs, overlapped>>

\* ------------------------------------------------------------- RedisLock
\* lock.py:36 set(key, nx=True, ex=ttl): succeeds iff the key is absent
LockFree(vm) == lockKey[vm] = 0

\* lock.py:31-39
acquire(w, vm) == [lockKey EXCEPT ![vm] = w]

\* lock.py:43-49: delete(key), whoever set it
release(lk, vm) == [lk EXCEPT ![vm] = 0]

\* ------------------------------------------------------ _run_migration_sync
VmOf(w) == migrations[wmig[w]].vm_id

Idle(w) == wpc[w] = "idle"

\* workers are interchangeable: a message goes to the lowest idle worker
NextIdle(w) == Idle(w) /\ \A o \in Workers : Idle(o) => w <= o

\* tasks.py:45-56: the task is delivered, the row is fetched, the lock acquired
Dequeue(w, m) ==
    /\ NextIdle(w)
    /\ m \in Ids /\ queue[m] > 0
    /\ LockFree(migrations[m].vm_id)
    /\ queue' = [queue EXCEPT ![m] = @ - 1]
    /\ lockKey' = acquire(w, migrations[m].vm_id)
    /\ wpc' = [wpc EXCEPT ![w] = "locked"]
    /\ wmig' = [wmig EXCEPT ![w] = m]
    /\ UNCHANGED <<migrations, wpolls, req, vmHost, plannerVars, sched, retries, timedOut, runs, overlapped>>

\* a timeout handler that records the failure on the row
LockTimeout_MarksFailed(w, m) ==
    /\ NextIdle(w)
    /\ m \in Ids /\ queue[m] > 0
    /\ ~LockFree(migrations[m].vm_id)
    /\ queue' = [queue EXCEPT ![m] = @ - 1]
    /\ timedOut' = timedOut \cup {m}
    /\ migrations' = SetRow(m, [migrations[m] EXCEPT
                                  !.status = "failed", !.error = "lock_acquire_failed",
                                  !.finished_at = TRUE])
    /\ UNCHANGED <<lockKey, wpc, wmig, wpolls, req, vmHost, plannerVars, sched, retries, runs, overlapped>>

\* tasks.py:142-144 with lock.py:41: the key stayed set for the 10 s wait; the
\* task returns {"error": "lock_acquire_failed"} and the message is consumed
LockTimeout(w, m) ==
    /\ NextIdle(w)
    /\ m \in Ids /\ queue[m] > 0
    /\ ~LockFree(migrations[m].vm_id)
    /\ queue' = [queue EXCEPT ![m] = @ - 1]
    /\ timedOut' = timedOut \cup {m}
    /\ UNCHANGED <<migrations, lockKey, wpc, wmig, wpolls, req, vmHost, plannerVars, sched, retries, runs, overlapped>>

\* the worker leaves the `with RedisLock` block and returns
Leave(w) ==
    /\ lockKey' = release(lockKey, VmOf(w))
    /\ wpc' = [wpc EXCEPT ![w] = "idle"]
    /\ wmig' = [wmig EXCEPT ![w] = 0]
    /\ wpolls' = [wpolls EXCEPT ![w] = 0]

\* tasks.py:64: statuses for which the worker does nothing
SkipStatuses == {"running", "completed"}

\* tasks.py:58-73: re-fetch FOR UPDATE, skip or mark running
Claim(w) ==
    /\ wpc[w] = "locked"
    /\ LET m == wmig[w]
       IN  IF migrations[m].status \in SkipStatuses
           THEN /\ Leave(w)
                /\ UNCHANGED <<migrations, runs>>
           ELSE /\ migrations' = SetRow(m, [migrations[m] EXCEPT
                                              !.status = "running", !.progress = 1])
                /\ runs' = [runs EXCEPT ![m] = @ + 1]
                /\ wpc' = [wpc EXCEPT ![w] = "precheck"]
                /\ UNCHANGED <<lockKey, wmig, wpolls>>
    /\ UNCHANGED <<queue, req, vmHost, plannerVars, sched, retries, timedOut, overlapped>>

\* a failure branch that forgets the finish time
Fail_NoFinishedAt(w, error) ==
    /\ migrations' = SetRow(wmig[w], [migrations[wmig[w]] EXCEPT
                                        !.status = "failed", !.error = error])
    /\ Leave(w)

\* the record is marked failed and the worker returns (tasks.py:82-87, 94-99,
\* 104-109, 118-123, 135-141); details is replaced by a dict with the key
\* "error" (and at most "traceback"), so details has no "tried": tried stays None
Fail(w, error) ==
    /\ migrations' = SetRow(wmig[w], [migrations[wmig[w]] EXCEPT
                                        !.status = "failed", !.error = error,
                                        !.finished_at = TRUE])
    /\ Leave(w)

\* tasks.py:77-99 on app.migration.orchestrator.MigrationOrchestrator: the
\* constructor may raise (xoa_client.py:17-18); is_live_migratable is not an
\* attribute of the class, so the call at line 90 raises
PreflightUnresolved(w) ==
    /\ wpc[w] = "precheck"
    /\ Fail(w, "migrate_check_failed")
    /\ UNCHANGED <<queue, req, vmHost, plannerVars, sched, retries, timedOut, runs, overlapped>>

\* tasks.py:156-179: an exception leaves _run_migration_sync (here the query of
\* line 58 raises); the `with` block releases the lock on the way out, the
\* wrapper marks the record failed when its own session works, then self.retry
\* publishes the task again unless max_retries retries were already made.
\* retries counts per migration id, the messages of one id being alike.
UnexpectedError(w) ==
    /\ wpc[w] = "locked"
    /\ LET m == wmig[w]
       IN  /\ \E marked \in BOOLEAN :
                 migrations' = IF marked
                               THEN SetRow(m, [migrations[m] EXCEPT
                                                 !.status = "failed", !.error = "exception",
                                                 !.finished_at = TRUE])
                               ELSE migrations
           /\ IF retries[m] < max_retries
              THEN /\ retries' = [retries EXCEPT ![m] = @ + 1]
                   /\ queue' = [queue EXCEPT ![m] = @ + 1]
              ELSE UNCHANGED <<retries, queue>>
    /\ Leave(w)
    /\ UNCHANGED <<req, vmHost, plannerVars, sched, timedOut, runs, overlapped>>

\* ------------------------------------------------- pre-flight, resolved
\* what vm_get_params may answer for the four parameters: None is a parameter
\* xe printed no line for (xen_ssh_client.py:67-100); guest_tools is whether
\* other-config contains "guest_tools_installed", pv_platform whether platform
\* contains one of the PV markers
VmParams ==
    [power_state : {None, "", "running", "Running", "halted"}, guest_tools : BOOLEAN,
     hvm_boot_policy : {None, "", "BIOS order"}, pv_platform : BOOLEAN]

\* `value or ""`
OrEmpty(v) == IF v = None THEN "" ELSE v

\* str.lower() on the power states that occur
Lower(s) ==
    CASE s = "Running" -> "running"
      [] OTHER -> s

\* migration_service/orchestrator.py:52-84
is_live_migratable(p) ==
    LET ps         == OrEmpty(p.power_state)
        hvm_policy == OrEmpty(p.hvm_boot_policy)
    IN  IF ps # "" /\ Lower(ps) # "running" THEN FALSE
        ELSE IF p.guest_tools THEN TRUE
        ELSE IF hvm_policy = "" THEN TRUE
        ELSE p.pv_platform

\* tasks.py:89-109 with is_live_migratable resolved; a failed parameter fetch
\* answers (False, ...) (migration_service/orchestrator.py:49-50)
Preflight(w) ==
    /\ wpc[w] = "precheck"
    /\ \E can_migrate \in {fetched /\ is_live_migratable(p) :
                                fetched \in BOOLEAN, p \in VmParams} :
          IF can_migrate
          THEN /\ wpc' = [wpc EXCEPT ![w] = "run"]
               /\ UNCHANGED <<migrations, lockKey, wmig, wpolls>>
          ELSE Fail(w, "not_eligible")
    /\ UNCHANGED <<queue, req, vmHost, plannerVars, sched, retries, timedOut, runs, overlapped>>

\* ------------------------------------------------- MigrationOrchestrator
\* orchestrator.py:59
Clamp(pct) == IF pct < 0 THEN 0 ELSE IF pct > 100 THEN 100 ELSE pct

\* orchestrator.py:57-63
update_progress(m, pct) == SetRow(m, [migrations[m] EXCEPT !.progress = Clamp(pct)])

\* tasks.py:126-133: the result is ok
Complete(w) ==
    /\ migrations' = SetRow(wmig[w], [migrations[wmig[w]] EXCEPT
                                        !.status = "completed", !.progress = 100,
                                        !.finished_at = TRUE])
    /\ Leave(w)

\* what the hypervisor answers to run(): the VM lookup fails, no endpoint and
\* payload shape is accepted, the call is accepted with or without an op id
InvokeOutcomes == {"vm_not_found", "no_supported_endpoint", "accepted_no_op", "accepted_op"}

\* orchestrator.py:127-178 followed, when run() returns not ok, by tasks.py:134-141
OrchestratorRun(w) ==
    /\ wpc[w] = "run"
    /\ \E outcome \in InvokeOutcomes :
          CASE outcome = "vm_not_found" -> Fail(w, "vm_not_found_or_xoa_error")
            [] outcome = "no_supported_endpoint" -> Fail(w, "no_supported_endpoint")
            [] outcome = "accepted_no_op" ->
                  /\ migrations' = update_progress(wmig[w], 75)
                  /\ wpc' = [wpc EXCEPT ![w] = "fast"]
                  /\ UNCHANGED <<lockKey, wmig, wpolls>>
            [] outcome = "accepted_op" ->
                  /\ wpc' = [wpc EXCEPT ![w] = "poll"]
                  /\ UNCHANGED <<migrations, lockKey, wmig, wpolls>>
    /\ UNCHANGED <<queue, req, vmHost, plannerVars, sched, retries, timedOut, runs, overlapped>>

\* orchestrator.py:173-175 then tasks.py:126-133
FastPath(w) ==
    /\ wpc[w] = "fast"
    /\ Complete(w)
    /\ UNCHANGED <<queue, req, vmHost, plannerVars, sched, retries, timedOut, runs, overlapped>>

\* orchestrator.py:104-125, one iteration of the loop: a terminal status ends it
\* (then orchestrator.py:180-185 and tasks.py:126-141), a progress value is stored
PollOperation(w) ==
    /\ wpc[w] = "poll"
    /\ wpolls[w] < MaxPolls
    /\ \/ Complete(w)
       \/ Fail(w, "op_failed")
       \/ \E prog \in PollProgress :
             /\ migrations' = update_progress(wmig[w], prog)
             /\ wpolls' = [wpolls EXCEPT ![w] = @ + 1]
             /\ UNCHANGED <<lockKey, wpc, wmig>>
    /\ UNCHANGED <<queue, req, vmHost, plannerVars, sched, retries, timedOut, runs, overlapped>>

\* a loop that never looks at the clock
PollTimeout_KeepsPolling(w) ==
    /\ wpc[w] = "poll"
    /\ wpolls[w] = MaxPolls
    /\ wpolls' = [wpolls EXCEPT ![w] = 0]
    /\ UNCHANGED <<migrations, lockKey, wpc, wmig>>
    /\ UNCHANGED <<queue, req, vmHost, plannerVars, sched, retries, timedOut, runs, overlapped>>

\* orchestrator.py:105-106: POLL_TIMEOUT has elapsed
PollTimeout(w) ==
    /\ wpc[w] = "poll"
    /\ wpolls[w] = MaxPolls
    /\ Fail(w, "op_failed")
    /\ UNCHANGED <<queue, req, vmHost, plannerVars, sched, retries, timedOut, runs, overlapped>>

\* ------------------------------------------------------- a cancel request
\* migration/api.py:23, 77: the routes mounted under /migrations
MigrationRoutes == {"POST /migrations", "GET /migrations/{migration_id}"}

\* the requests a caller may try to cancel a migration with
CancelRoutes == {"POST /migrations/{migration_id}/cancel", "DELETE /migrations/{migration_id}"}

\* a cancel request reaches the controller: no route of migration/api.py takes
\* it, no handler runs, and neither tasks.py nor orchestrator.py:101-125 reads a
\* cancel flag; call records the request and whether a route took it
CancelRequest(m, route) ==
    /\ m \in Ids
    /\ call' = [op |-> "cancel", id |-> m, route |-> route,
                accepted |-> route \in MigrationRoutes]
    /\ UNCHANGED <<migrationVars, now, vm_cooldowns, host_cooldowns,
                   emergency_migrations_per_host, lastProposed, proposals, lastEmergency>>

\* ------------------------------------------------------- run(), simulate=True
\* orchestrator.py:150: the progress values of the simulation
SimProgress == <<5, 25, 50, 80, 100>>

\* orchestrator.py:139-149 on an orchestrator built with simulate=True (the
\* worker of tasks.py:78 passes False; a test or dry-run passes True): the VM is
\* looked up through the XOA client before self.simulate is read.  call records
\* the calls made to the hypervisor, the progress values stored and the result.
SimulatedRun(w) ==
    /\ wpc[w] = "run"
    /\ \E found \in BOOLEAN :
          IF found
          THEN /\ call' = [op |-> "simulate", id |-> wmig[w], driver_calls |-> 1,
                           progress |-> <<>>, result |-> "pending"]
               /\ wpc' = [wpc EXCEPT ![w] = "simulate"]
               /\ UNCHANGED <<migrations, lockKey, wmig, wpolls>>
          ELSE /\ call' = [op |-> "simulate", id |-> wmig[w], driver_calls |-> 1,
                           progress |-> <<>>, result |-> "not_ok"]
               /\ Fail(w, "vm_not_found_or_xoa_error")
    /\ UNCHANGED <<queue, req, vmHost, sched, retries, timedOut, runs, overlapped, now,
                   vm_cooldowns, host_cooldowns, emergency_migrations_per_host,
                   lastProposed, proposals, lastEmergency>>

\* orchestrator.py:150-154, one round of the loop; after the last one run
\* returns ok and tasks.py:126-133 completes the record
SimulateStep(w) ==
    /\ wpc[w] = "simulate"
    /\ call.op = "simulate" /\ call.id = wmig[w]
    /\ LET k == wpolls[w] + 1
       IN  IF k < Len(SimProgress)
           THEN /\ migrations' = update_progress(wmig[w], SimProgress[k])
                /\ wpolls' = [wpolls EXCEPT ![w] = k]
                /\ call' = [call EXCEPT !.progress = Append(@, SimProgress[k])]
                /\ UNCHANGED <<lockKey, wpc, wmig>>
           ELSE /\ call' = [call EXCEPT !.progress = Append(@, SimProgress[k]),
                                        !.result = "ok"]
                /\ Complete(w)
    /\ UNCHANGED <<queue, req, vmHost, sched, retries, timedOut, runs, overlapped, now,
                   vm_cooldowns, host_cooldowns, emergency_migrations_per_host,
                   lastProposed, proposals, lastEmergency>>

\* ------------------------------------------- the database failing inside run()
\* orchestrator.py:52-55 has no try: a commit that raises inside run (lines
\* 139, 169, 178, 182) reaches the handler of lines 186-188, which calls
\* _insert_event again.  When that insert works run returns ok False with
\* error "exception" (tasks.py:134-141); when it raises too, the exception
\* leaves run and tasks.py:114-123 stores str(e).  call records how run ended.
EventInsertFails(w) ==
    /\ wpc[w] \in {"run", "poll"}
    /\ \E handler_ok \in BOOLEAN :
          /\ call' = [op |-> "run", id |-> wmig[w], raised |-> ~handler_ok,
                      event |-> IF handler_ok THEN "error" ELSE None]
          /\ Fail(w, IF handler_ok THEN "exception" ELSE "db_error")
    /\ UNCHANGED <<queue, req, vmHost, sched, retries, timedOut, runs, overlapped, now,
                   vm_cooldowns, host_cooldowns, emergency_migrations_per_host,
                   lastProposed, proposals, lastEmergency>>

\* orchestrator.py:57-63 when the commit of line 61 raises: the except branch
\* only rolls back, and the rollback may raise as well.  In the poll loop the
\* call is wrapped (orchestrator.py:120-123) and the loop goes on; at lines 171
\* and 174 it is not, and an exception goes to the handler of lines 186-188, so
\* run ends with ok False or raises.  call records what _update_progress did.
ProgressCommitFails(w) ==
    /\ wpc[w] \in {"poll", "fast"}
    /\ \E rollback_ok \in BOOLEAN :
          IF wpc[w] = "poll"
          THEN /\ wpolls[w] < MaxPolls
               /\ wpolls' = [wpolls EXCEPT ![w] = @ + 1]
               /\ call' = [op |-> "_update_progress", id |-> wmig[w], persisted |-> FALSE,
                           event |-> None, raised |-> ~rollback_ok, failed |-> FALSE]
               /\ UNCHANGED <<migrations, lockKey, wpc, wmig>>
          ELSE IF rollback_ok
          THEN /\ call' = [op |-> "_update_progress", id |-> wmig[w], persisted |-> FALSE,
                           event |-> None, raised |-> FALSE, failed |-> FALSE]
               /\ Complete(w)
          ELSE /\ call' = [op |-> "_update_progress", id |-> wmig[w], persisted |-> FALSE,
                           event |-> None, raised |-> TRUE, failed |-> TRUE]
               /\ Fail(w, "exception")
    /\ UNCHANGED <<queue, req, vmHost, sched, retries, timedOut, runs, overlapped, now,
                   vm_cooldowns, host_cooldowns, emergency_migrations_per_host,
                   lastProposed, proposals, lastEmergency>>

\* lock.py:36 ex=self.ttl with tasks.py:56 ttl=300: nothing renews the key, so
\* it disappears 300 s after it was set.  The holder's poll loop alone runs
\* until more than POLL_TIMEOUT = 300 s have passed since it began
\* (orchestrator.py:40, 105), which is later than the acquisition: the key of a
\* holder whose loop has used up its iterations may be gone.
ExpireLock(vm) ==
    /\ lockKey[vm] # 0
    /\ LET w == lockKey[vm]
       IN  wpc[w] = "poll" /\ wpolls[w] = MaxPolls /\ VmOf(w) = vm
    /\ lockKey' = [lockKey EXCEPT ![vm] = 0]
    /\ UNCHANGED <<migrations, queue, wpc, wmig, wpolls, req, vmHost, plannerVars, sched, retries, timedOut, runs, overlapped>>

\* ------------------------------------------------------------- scheduler
\* str.upper() on the status names that occur (api/migrations.py:28)
Upper(s) ==
    CASE s = "pending" -> "PENDING"
      [] s = "running" -> "RUNNING"
      [] s = "queued"  -> "QUEUED"
      [] s = "down"    -> "DOWN"
      [] s = "up"      -> "UP"
      [] OTHER -> s

\* api/migrations.py:20-41: rows whose status is one of the upper-cased names
list_migrations(statuses) ==
    LET wanted == {Upper(s) : s \in statuses}
    IN  {mid \in Ids : LET r == migrations[mid] IN r.status \in wanted}

\* api_client.py:105-127: the first endpoint answers with a list, its length counts
get_running_migrations_count == Cardinality(list_migrations({"PENDING", "RUNNING"}))

\* the store's count_non_terminal()
NonTerminalCount == Cardinality({mid \in Ids : LET r == migrations[mid] IN r.status \notin TerminalStatuses})

\* main.py:10-19: the POST routes the controller mounts for migrations
ControllerPostRoutes == {"/migrations", "/migration/manual"}

\* api_client.py:72-85: POST /migration/request, raise_for_status
request_migration_accepted == "/migration/request" \in ControllerPostRoutes

\* a loop that gives up at the first request that fails
RECURSIVE SubmitLoop_StopsAtFailure(_, _, _)
SubmitLoop_StopsAtFailure(n, counter, sent) ==
    IF n = 0 \/ counter >= MAX_CONCURRENT_MIGRATIONS
    THEN [counter |-> counter, sent |-> sent]
    ELSE IF request_migration_accepted
         THEN SubmitLoop_StopsAtFailure(n - 1, counter + 1, sent + 1)
         ELSE [counter |-> counter, sent |-> sent + 1]

\* background.py:54-74: the loop over the plan; requests sent and the counter after
RECURSIVE SubmitLoop(_, _, _)
SubmitLoop(n, counter, sent) ==
    IF n = 0 \/ counter >= MAX_CONCURRENT_MIGRATIONS
    THEN [counter |-> counter, sent |-> sent]
    ELSE SubmitLoop(n - 1,
                    IF request_migration_accepted THEN counter + 1 ELSE counter,
                    sent + 1)

\* background.py:45-74: the scheduler's counter after a plan of n proposals,
\* when the count request was answered with `read`
submit_plan_after(n, read) ==
    LET out == SubmitLoop(n, read, 0)
    IN  [running_migrations |-> out.counter, read |-> read,
         actual |-> NonTerminalCount, sent |-> out.sent]

\* background.py:45-74 against the controller of src/
submit_plan_result(n) == submit_plan_after(n, get_running_migrations_count)

\* background.py:45-74 for a plan of n proposals
submit_plan(n) ==
    /\ sched' = submit_plan_result(n)
    /\ UNCHANGED <<migrations, queue, lockKey, wpc, wmig, wpolls, req, vmHost, plannerVars, runs, overlapped,
                   retries, timedOut>>

\* ------------------------------------------------------ scheduler policies
\* policies.py:6-10, the score in thousandths (the weights are 0.6, 0.3, 0.1 and
\* the operands are percentages divided by 100); cpu_count is 1, so load_norm
\* is load1
host_score(h) == W_CPU * h.cpu_percent + W_MEM * h.mem_percent + W_LOAD * 100 * h.load1

\* policies.py:12-13
is_host_overloaded(h) ==
    h.cpu_percent >= HIGH_CPU_THRESHOLD \/ h.mem_percent >= HIGH_MEM_THRESHOLD

\* policies.py:15-21
can_receive_vm(h, vm_cpu_percent_est, vm_mem_percent_est) ==
    IF h.cpu_percent + vm_cpu_percent_est >= LOW_CPU_THRESHOLD THEN FALSE
    ELSE IF h.mem_percent + vm_mem_percent_est >= LOW_MEM_THRESHOLD THEN FALSE
    ELSE IF Truthy(h.status) /\ Upper(h.status) # "UP" THEN FALSE
    ELSE TRUE

\* policies.py:24-30: positions of the hosts that become candidates
Candidates(hosts, vm_cpu_est, exclude_host_id) ==
    {i \in 1..Len(hosts) :
        /\ ~(Truthy(exclude_host_id) /\ hosts[i].host_id = exclude_host_id)
        /\ can_receive_vm(hosts[i], vm_cpu_est, 0)}

\* a selection that forgets to sort: the first candidate of the list
select_best_destination_Unsorted(hosts, vm_cpu_est, exclude_host_id) ==
    LET c == Candidates(hosts, vm_cpu_est, exclude_host_id)
    IN  IF c = {} THEN 0 ELSE CHOOSE i \in c : \A j \in c : i <= j

\* policies.py:23-34: the position of the host returned, 0 for None; the sort
\* is stable, so of the candidates with the lowest score the first one wins
select_best_destination(hosts, vm_cpu_est, exclude_host_id) ==
    LET c == Candidates(hosts, vm_cpu_est, exclude_host_id)
    IN  IF c = {} THEN 0
        ELSE CHOOSE i \in c : \A j \in c :
                \/ host_score(hosts[i]) < host_score(hosts[j])
                \/ host_score(hosts[i]) = host_score(hosts[j]) /\ i <= j

\* ---------------------------------------------------------------- Planner
\* `t and t > time.time()` on dict.get: an absent entry (kept as 0) is falsy
in_cooldown(expiries, key, t) == expiries[key] # 0 /\ expiries[key] > t

\* a cooldown test that never finds a VM cooling
in_vm_cooldown_Never(cooldowns, vm) == FALSE

\* planner.py:15-17
in_vm_cooldown(cooldowns, vm) == in_cooldown(cooldowns, vm.vm_uuid, now)

\* planner.py:22-24
in_host_cooldown(cooldowns, host_id) == in_cooldown(cooldowns, host_id, now)

\* list.sort(key=..., reverse=True) on a sequence of <<key, item>> pairs: the
\* highest key first, equal keys in their original order
RemoveAt(s, k) == [i \in 1..(Len(s) - 1) |-> IF i < k THEN s[i] ELSE s[i + 1]]

RECURSIVE SortedDesc(_)
SortedDesc(s) ==
    IF s = <<>> THEN <<>>
    ELSE LET k == CHOOSE i \in 1..Len(s) : \A j \in 1..Len(s) :
                     s[i][1] > s[j][1] \/ (s[i][1] = s[j][1] /\ i <= j)
         IN  <<s[k]>> \o SortedDesc(RemoveAt(s, k))

Items(pairs) == [i \in 1..Len(pairs) |-> pairs[i][2]]

Max(a, b) == IF a >= b THEN a ELSE b

\* planner.py:43-44: the VMs of a host that are neither cooling nor protected,
\* largest cpu_percent first
MovableVMs(vms, host_id, cooldowns) ==
    LET mine == SelectSeq(vms, LAMBDA vm : /\ vm.host_id = host_id
                                           /\ ~in_vm_cooldown(cooldowns, vm)
                                           /\ ~vm.protected)
    IN  Items(SortedDesc([i \in 1..Len(mine) |-> <<mine[i].cpu_percent, mine[i]>>]))

\* a loop that plans every move against the loads of the snapshot
RECURSIVE VmLoop_NoSimulation(_, _, _, _)
VmLoop_NoSimulation(st, si, vms_sorted, max_plan) ==
    IF vms_sorted = <<>> THEN st
    ELSE LET vm  == Head(vms_sorted)
             src == st.hosts[si].host_id
             dst == select_best_destination(st.hosts, vm.cpu_percent, src)
             st1 == IF dst = 0 THEN st
                    ELSE [st EXCEPT
                            !.plan = Append(@, <<vm.vm_uuid, st.hosts[dst].host_id>>),
                            !.vm_cooldowns[vm.vm_uuid] = now + MIGRATION_COOLDOWN,
                            !.host_cooldowns[src] = now + HOST_COOLDOWN]
         IN  IF Len(st1.plan) >= max_plan
             THEN [st1 EXCEPT !.returned = TRUE]
             ELSE VmLoop_NoSimulation(st1, si, Tail(vms_sorted), max_plan)

\* planner.py:45-55: the loop over the VMs of one source host.  st carries the
\* hosts (their cpu_percent is rewritten), both cooldown maps, the plan, and
\* whether line 55 returned.
RECURSIVE VmLoop(_, _, _, _)
VmLoop(st, si, vms_sorted, max_plan) ==
    IF vms_sorted = <<>> THEN st
    ELSE LET vm  == Head(vms_sorted)
             src == st.hosts[si].host_id
             dst == select_best_destination(st.hosts, vm.cpu_percent, src)
             st1 == IF dst = 0 THEN st
                    ELSE [st EXCEPT
                            !.plan = Append(@, <<vm.vm_uuid, st.hosts[dst].host_id>>),
                            !.vm_cooldowns[vm.vm_uuid] = now + MIGRATION_COOLDOWN,
                            !.host_cooldowns[src] = now + HOST_COOLDOWN,
                            !.hosts[si].cpu_percent = Max(0, @ - vm.cpu_percent),
                            !.hosts[dst].cpu_percent = @ + vm.cpu_percent]
         IN  IF Len(st1.plan) >= max_plan
             THEN [st1 EXCEPT !.returned = TRUE]
             ELSE VmLoop(st1, si, Tail(vms_sorted), max_plan)

\* planner.py:40-56: the loop over the overloaded hosts
RECURSIVE SrcLoop(_, _, _, _)
SrcLoop(st, overloaded, vms, max_plan) ==
    IF overloaded = <<>> \/ st.returned THEN st
    ELSE LET si == Head(overloaded)
         IN  SrcLoop(VmLoop(st, si,
                            MovableVMs(vms, st.hosts[si].host_id, st.vm_cooldowns),
                            max_plan),
                     Tail(overloaded), vms, max_plan)

\* planner.py:36-37: positions of the overloaded hosts not cooling, highest
\* cpu_percent first
Overloaded(hosts) ==
    LET idx == SelectSeq([i \in 1..Len(hosts) |-> i],
                         LAMBDA i : /\ is_host_overloaded(hosts[i])
                                    /\ ~in_host_cooldown(host_cooldowns, hosts[i].host_id))
    IN  Items(SortedDesc([k \in 1..Len(idx) |-> <<hosts[idx[k]].cpu_percent, idx[k]>>]))

\* planner.py:29-56; the hosts come ordered by host_id, so `healthy` is `hosts`
plan_rebalance(hosts, vms, max_plan) ==
    SrcLoop([hosts |-> hosts, vm_cooldowns |-> vm_cooldowns,
             host_cooldowns |-> host_cooldowns, plan |-> <<>>, returned |-> FALSE],
            Overloaded(hosts), vms, max_plan)

\* planner.py:70-74: of the three heaviest candidates, the first with a
\* destination; <<>> when none has one
EmergencyChoice(hosts, candidates, host_id) ==
    LET first3 == SubSeq(candidates, 1, IF Len(candidates) < 3 THEN Len(candidates) ELSE 3)
        placed == SelectSeq(first3, LAMBDA vm :
                      select_best_destination(hosts, vm.cpu_percent, host_id) # 0)
    IN  IF placed = <<>> THEN <<>>
        ELSE <<<<placed[1].vm_uuid,
                 hosts[select_best_destination(hosts, placed[1].cpu_percent, host_id)].host_id>>>>

\* planner.py:58-81: the plan returned
plan_emergency(host_id, hosts, vms) ==
    IF in_host_cooldown(host_cooldowns, host_id) THEN <<>>
    ELSE IF emergency_migrations_per_host[host_id] >= MAX_EMERGENCY_MIGRATIONS_PER_HOST
         THEN <<>>
         ELSE EmergencyChoice(hosts, MovableVMs(vms, host_id, vm_cooldowns), host_id)

\* ------------------------------------------------- planner, as a process
\* the snapshots get_hosts and get_vms may answer (background.py:31-39, 79-82)
PlannerHostIds == <<"hA", "hB", "hC">>
PlannerVmIds   == {"v1", "v2", "v3", "v4"}

HostSnapshots ==
    {[i \in 1..Len(PlannerHostIds) |->
        [host_id |-> PlannerHostIds[i], cpu_percent |-> cpu[i], mem_percent |-> 20,
         status |-> "UP", load1 |-> 0]] : cpu \in [1..Len(PlannerHostIds) -> {20, 90}]}

VmSnapshots ==
    {<<[vm_uuid |-> "v1", host_id |-> "hA", cpu_percent |-> 10, protected |-> FALSE],
       [vm_uuid |-> "v2", host_id |-> "hA", cpu_percent |-> 5, protected |-> p],
       [vm_uuid |-> "v3", host_id |-> "hB", cpu_percent |-> 10, protected |-> FALSE]>>
     : p \in BOOLEAN}

\* a host with four VMs, the three heaviest too large for a host at cpu 20
HeavyVmSnapshots ==
    {<<[vm_uuid |-> "v1", host_id |-> h, cpu_percent |-> 50, protected |-> p],
       [vm_uuid |-> "v2", host_id |-> h, cpu_percent |-> 45, protected |-> FALSE],
       [vm_uuid |-> "v3", host_id |-> h, cpu_percent |-> 42, protected |-> FALSE],
       [vm_uuid |-> "v4", host_id |-> h, cpu_percent |-> c, protected |-> FALSE]>>
     : h \in {"hA", "hB"}, p \in BOOLEAN, c \in {5, 41}}

NoCall == [op |-> "none"]

\* observer: of all the movable VMs of the host, heaviest first, the first one
\* select_best_destination finds a destination for; None when there is none
BestPlaceable(hosts, vms, host_id) ==
    LET placed == SelectSeq(MovableVMs(vms, host_id, vm_cooldowns), LAMBDA vm :
                      select_best_destination(hosts, vm.cpu_percent, host_id) # 0)
    IN  IF placed = <<>> THEN None ELSE placed[1].vm_uuid

VmsIn(plan) == {plan[i][1] : i \in 1..Len(plan)}

Occurrences(plan, v) == Cardinality({i \in 1..Len(plan) : plan[i][1] = v})

Cooling(vms) == {vms[i].vm_uuid : i \in {k \in 1..Len(vms) : in_vm_cooldown(vm_cooldowns, vms[k])}}

Protected(vms) == {vms[i].vm_uuid : i \in {k \in 1..Len(vms) : vms[k].protected}}

\* the host a snapshot places a VM on
HostOf(vms, vm_uuid) == vms[CHOOSE i \in 1..Len(vms) : vms[i].vm_uuid = vm_uuid].host_id

\* time.time() moves on
Tick ==
    /\ now < MaxTicks * TickSeconds
    /\ now' = now + TickSeconds
    /\ call' = NoCall
    /\ UNCHANGED <<vm_cooldowns, host_cooldowns, emergency_migrations_per_host,
                   lastProposed, proposals, lastEmergency, migrationVars>>

\* planner.py:48-50: what the proposals of a cycle leave in the planner
RebalanceEffects(st) ==
    /\ vm_cooldowns' = st.vm_cooldowns
    /\ host_cooldowns' = st.host_cooldowns
    /\ lastProposed' = [v \in PlannerVmIds |->
                          IF v \in VmsIn(st.plan) THEN now ELSE lastProposed[v]]
    /\ proposals' = [v \in PlannerVmIds |-> proposals[v] + Occurrences(st.plan, v)]

\* background.py:29-41: one periodic cycle's call of plan_rebalance
PlanRebalance(hosts, vms, max_plan) ==
    /\ LET st == plan_rebalance(hosts, vms, max_plan)
       IN  /\ RebalanceEffects(st)
           /\ call' = [op |-> "plan_rebalance", max_plan |-> max_plan, plan |-> st.plan,
                       cooling |-> Cooling(vms), protected |-> Protected(vms),
                       sources |-> [k \in 1..Len(st.plan) |-> HostOf(vms, st.plan[k][1])]]
    /\ UNCHANGED <<now, emergency_migrations_per_host, lastEmergency, migrationVars>>

\* an emergency planner that starts the host's cooldown before it looks for
\* a destination
EmergencyEffects_CoolsFirst(host_id, plan) ==
    /\ host_cooldowns' = [host_cooldowns EXCEPT ![host_id] = now + HOST_COOLDOWN]
    /\ IF plan = <<>>
       THEN UNCHANGED <<vm_cooldowns, emergency_migrations_per_host, lastEmergency>>
       ELSE /\ vm_cooldowns' = [vm_cooldowns EXCEPT ![plan[1][1]] = now + MIGRATION_COOLDOWN]
            /\ emergency_migrations_per_host' =
                   [emergency_migrations_per_host EXCEPT ![host_id] = @ + 1]
            /\ lastEmergency' = [lastEmergency EXCEPT ![host_id] = now]

\* planner.py:75-79: what a returned proposal leaves in the planner
EmergencyEffects(host_id, plan) ==
    IF plan = <<>>
    THEN UNCHANGED <<vm_cooldowns, host_cooldowns, emergency_migrations_per_host,
                     lastEmergency>>
    ELSE /\ vm_cooldowns' = [vm_cooldowns EXCEPT ![plan[1][1]] = now + MIGRATION_COOLDOWN]
         /\ host_cooldowns' = [host_cooldowns EXCEPT ![host_id] = now + HOST_COOLDOWN]
         /\ emergency_migrations_per_host' =
                [emergency_migrations_per_host EXCEPT ![host_id] = @ + 1]
         /\ lastEmergency' = [lastEmergency EXCEPT ![host_id] = now]

\* background.py:76-89: an alert's call of plan_emergency with the VMs of the host
PlanEmergency(host_id, hosts, vms) ==
    /\ LET plan    == plan_emergency(host_id, hosts, vms)
           movable == EmergencyChoice(hosts, MovableVMs(vms, host_id, vm_cooldowns),
                                      host_id) # <<>>
       IN  /\ call' = [op |-> "plan_emergency", host_id |-> host_id, plan |-> plan,
                       movable |-> movable, best |-> BestPlaceable(hosts, vms, host_id)]
           /\ EmergencyEffects(host_id, plan)
    /\ UNCHANGED <<now, lastProposed, proposals, migrationVars>>

\* planner.py:29: max_plan when the caller gives none
DefaultMaxPlan == 5

\* background.py:22-27: what start_periodic does after a cycle, raised or not
AfterCycle(raised) == "sleep"

\* background.py:21-42: one round of start_periodic: run_periodic_cycle fetches
\* the snapshot (an exception there ends the cycle and is logged by
\* start_periodic), plans and submits the plan.  call records the plan, what
\* submit_plan read, sent and counted, and what the loop does next.
run_periodic_cycle(hosts, vms) ==
    /\ call.op = "run_periodic_cycle" => call.next = "sleep"
    /\ \E fetched \in BOOLEAN :
          IF ~fetched
          THEN /\ call' = [op |-> "run_periodic_cycle", raised |-> TRUE,
                           next |-> AfterCycle(TRUE), plan |-> <<>>, read |-> 0,
                           counter |-> sched.running_migrations, sent |-> 0,
                           failures |-> 0]
               /\ UNCHANGED <<sched, vm_cooldowns, host_cooldowns, lastProposed, proposals>>
          ELSE LET st  == plan_rebalance(hosts, vms, DefaultMaxPlan)
                   out == submit_plan_result(Len(st.plan))
               IN  /\ RebalanceEffects(st)
                   /\ sched' = out
                   /\ call' = [op |-> "run_periodic_cycle", raised |-> FALSE,
                               next |-> AfterCycle(FALSE), plan |-> st.plan,
                               read |-> out.read, counter |-> out.running_migrations,
                               sent |-> out.sent,
                               failures |-> IF request_migration_accepted THEN 0
                                            ELSE out.sent]
    /\ UNCHANGED <<now, emergency_migrations_per_host, lastEmergency, migrations, queue,
                   lockKey, wpc, wmig, wpolls, req, vmHost, runs, overlapped, retries,
                   timedOut>>

\* hosts.py:15: the POST routes the controller mounts under /hosts
ControllerHostPostRoutes == {"/hosts/register"}

\* api_client.py:87-91: POST /hosts/{host_id}/throttle, raise_for_status
throttle_host_accepted == "/hosts/{host_id}/throttle" \in ControllerHostPostRoutes

\* background.py:94
duration_seconds == 300

ThrottleNeeded_Always(plan) == TRUE

\* background.py:90: `if not plan`
ThrottleNeeded(plan) == plan = <<>>

\* no throttle request was sent
NoThrottle == [called |-> FALSE, host_id |-> None, duration_seconds |-> 0, failed |-> FALSE]

\* the hosts an alert may name; "hZ" is in no snapshot
AlertHostIds == {"hA", "hB", "hC", "hZ"}

\* background.py:76-100: one alert handled, from the two fetches to the return;
\* call records what was asked of the controller and what the caller got
handle_alert(host_id, hosts, vms, current_running) ==
    /\ \E fetched \in BOOLEAN :
          IF ~fetched
          THEN /\ call' = [op |-> "handle_alert", host_id |-> host_id, status |-> "raised",
                           plan |-> <<>>, throttle |-> NoThrottle, raised |-> TRUE,
                           sent |-> 0]
               /\ UNCHANGED <<sched, vm_cooldowns, host_cooldowns,
                              emergency_migrations_per_host, lastEmergency>>
          ELSE IF \A i \in 1..Len(hosts) : hosts[i].host_id # host_id
          THEN /\ call' = [op |-> "handle_alert", host_id |-> host_id,
                           status |-> "host_not_found", plan |-> <<>>,
                           throttle |-> NoThrottle, raised |-> FALSE, sent |-> 0]
               /\ UNCHANGED <<sched, vm_cooldowns, host_cooldowns,
                              emergency_migrations_per_host, lastEmergency>>
          ELSE LET plan == plan_emergency(host_id, hosts, vms)
               IN  /\ EmergencyEffects(host_id, plan)
                   /\ IF ThrottleNeeded(plan)
                      THEN /\ call' = [op |-> "handle_alert", host_id |-> host_id,
                                       status |-> "throttled", plan |-> plan,
                                       throttle |-> [called |-> TRUE, host_id |-> host_id,
                                                     duration_seconds |-> duration_seconds,
                                                     failed |-> ~throttle_host_accepted],
                                       raised |-> FALSE, sent |-> 0]
                           /\ UNCHANGED sched
                      ELSE /\ call' = [op |-> "handle_alert", host_id |-> host_id,
                                       status |-> "migration_requested", plan |-> plan,
                                       throttle |-> NoThrottle, raised |-> FALSE,
                                       sent |-> submit_plan_after(Len(plan),
                                                                  current_running).sent]
                           /\ sched' = submit_plan_after(Len(plan), current_running)
    /\ UNCHANGED <<now, lastProposed, proposals, migrations, queue, lockKey, wpc, wmig,
                   wpolls, req, vmHost, runs, overlapped, retries, timedOut>>

\* ------------------------------------- select_best_destination, on its own
\* host lists, cpu estimates and source hosts the function is applied to; None
\* is the default exclude_host_id; the second and third host score within
\* 0.05 of each other when their other fields agree
SelectHostIds == <<"", "hA", "hB">>

SelectHostLists ==
    {[i \in 1..Len(SelectHostIds) |->
        [host_id |-> SelectHostIds[i], cpu_percent |-> f[i][1], mem_percent |-> f[i][2],
         status |-> f[i][3], load1 |-> 0]]
     : f \in [1..Len(SelectHostIds) -> {10, 15, 70} \X {20, 80} \X {"UP", "down"}]}

SelectInputs ==
    [op : {"input"}, hosts : SelectHostLists, vm_cpu_est : {0, 45},
     exclude_host_id : {None, "", "hA", "hB"}]

SelectBestDestination ==
    /\ call.op = "input"
    /\ call' = [op |-> "select_best_destination", hosts |-> call.hosts,
                vm_cpu_est |-> call.vm_cpu_est, exclude_host_id |-> call.exclude_host_id,
                result |-> select_best_destination(call.hosts, call.vm_cpu_est,
                                                   call.exclude_host_id)]
    /\ UNCHANGED <<now, vm_cooldowns, host_cooldowns, emergency_migrations_per_host,
                   lastProposed, proposals, lastEmergency, migrationVars>>

\* ------------------------------------------- cycles that drain a host
\* snapshots in which a VM is large enough for its host to fall under
\* LOW_CPU_THRESHOLD once the VM is planned away
DrainHostSnapshots ==
    {<<[host_id |-> "hA", cpu_percent |-> 90, mem_percent |-> 20, status |-> "UP", load1 |-> 0],
       [host_id |-> "hB", cpu_percent |-> b, mem_percent |-> 20, status |-> "UP", load1 |-> 0],
       [host_id |-> "hC", cpu_percent |-> c, mem_percent |-> 20, status |-> "UP", load1 |-> 0]>>
     : b \in {20, 85}, c \in {5, 30}}

DrainVmSnapshots ==
    {<<[vm_uuid |-> "v1", host_id |-> "hA", cpu_percent |-> c, protected |-> FALSE],
       [vm_uuid |-> "v2", host_id |-> "hA", cpu_percent |-> 25, protected |-> p],
       [vm_uuid |-> "v3", host_id |-> "hB", cpu_percent |-> 10, protected |-> FALSE]>>
     : c \in {30, 50}, p \in BOOLEAN}

\* background.py:29-41: one periodic cycle's call of plan_rebalance, max_plan at
\* its default; call keeps the snapshot the plan was made from
PlanCycle(hosts, vms) ==
    /\ LET st == plan_rebalance(hosts, vms, DefaultMaxPlan)
       IN  /\ RebalanceEffects(st)
           /\ call' = [op |-> "plan_cycle", hosts |-> hosts, vms |-> vms, plan |-> st.plan]
    /\ UNCHANGED <<now, emergency_migrations_per_host, lastEmergency, migrationVars>>

\* ------------------------------------------------ can_receive_vm, on its own
\* hosts and estimates around both thresholds; status None is a host without
\* a status (models.py:9 Optional[str])
ReceiveInputs ==
    [op : {"input"}, cpu_percent : {20, 59, 60}, mem_percent : {20, 69, 70},
     status : {None, "", "UP", "up", "down"}, est_cpu : {0, 1, 40}, est_mem : {0, 1}]

\* the hosts and VMs of the spec's worked example: A is overloaded, v1 fits
\* nowhere, v2 fits B and C
ExampleHosts ==
    <<[host_id |-> "hA", cpu_percent |-> 90, mem_percent |-> 20, status |-> "UP", load1 |-> 0],
      [host_id |-> "hB", cpu_percent |-> 20, mem_percent |-> 20, status |-> "UP", load1 |-> 0],
      [host_id |-> "hC", cpu_percent |-> 30, mem_percent |-> 30, status |-> "UP", load1 |-> 0]>>

ExampleVms ==
    <<[vm_uuid |-> "v1", host_id |-> "hA", cpu_percent |-> 40, protected |-> FALSE],
      [vm_uuid |-> "v2", host_id |-> "hA", cpu_percent |-> 10, protected |-> FALSE]>>

\* policies.py:15-21 applied once
CanReceiveVm ==
    /\ call.op = "input"
    /\ call' = [op |-> "can_receive_vm", cpu_percent |-> call.cpu_percent,
                mem_percent |-> call.mem_percent, status |-> call.status,
                est_cpu |-> call.est_cpu, est_mem |-> call.est_mem,
                result |-> can_receive_vm(call, call.est_cpu, call.est_mem)]
    /\ UNCHANGED <<now, vm_cooldowns, host_cooldowns, emergency_migrations_per_host,
                   lastProposed, proposals, lastEmergency, migrationVars>>

\* planner.py:29-56 applied to the example, max_plan at its default
ExamplePlan ==
    /\ call.op = "example"
    /\ LET st == plan_rebalance(ExampleHosts, ExampleVms, DefaultMaxPlan)
       IN  /\ RebalanceEffects(st)
           /\ call' = [op |-> "plan_example", plan |-> st.plan]
    /\ UNCHANGED <<now, emergency_migrations_per_host, lastEmergency, migrationVars>>

\* --------------------------------------------- the two overload predicates
\* controller/app/scheduler/scheduler.py:29: the literals 80.0 and 85.0
CONTROLLER_CPU_LIMIT == 80
CONTROLLER_MEM_LIMIT == 85

\* controller/app/scheduler/scheduler.py:18-31, on a metric whose fields are numbers
host_is_overloaded(latest_metric) ==
    IF latest_metric.cpu_percent > CONTROLLER_CPU_LIMIT
       \/ latest_metric.mem_percent > CONTROLLER_MEM_LIMIT
    THEN TRUE
    ELSE FALSE

\* the percentages both predicates are applied to
Percent == 0..100

OverloadInputs == [op : {"input"}, cpu_percent : Percent, mem_percent : Percent]

\* policies.py:12-13 and scheduler.py:18-31 applied to the same figures
IsHostOverloaded ==
    /\ call.op = "input"
    /\ call' = [op |-> "is_host_overloaded", cpu_percent |-> call.cpu_percent,
                mem_percent |-> call.mem_percent,
                scheduler |-> is_host_overloaded(call),
                controller |-> host_is_overloaded(call)]
    /\ UNCHANGED <<now, vm_cooldowns, host_cooldowns, emergency_migrations_per_host,
                   lastProposed, proposals, lastEmergency, migrationVars>>

\* ----------------------------------------- is_live_migratable, on its own
\* the answers of vm_get_params the function is applied to; fetched is FALSE
\* when vm_get_params raised
PreflightInputs == [op : {"input"}, fetched : BOOLEAN, params : VmParams]

\* migration_service/orchestrator.py:37-84
IsLiveMigratable ==
    /\ call.op = "input"
    /\ call' = [op |-> "is_live_migratable", fetched |-> call.fetched,
                params |-> call.params,
                result |-> call.fetched /\ is_live_migratable(call.params)]
    /\ UNCHANGED <<now, vm_cooldowns, host_cooldowns, emergency_migrations_per_host,
                   lastProposed, proposals, lastEmergency, migrationVars>>

\* ---------------------------------------------------------------- system
InitMigration ==
    /\ migrations = <<>>
    /\ queue = [m \in MigIds |-> 0]
    /\ lockKey = [v \in VMs |-> 0]
    /\ wpc = [w \in Workers |-> "idle"]
    /\ wmig = [w \in Workers |-> 0]
    /\ wpolls = [w \in Workers |-> 0]
    /\ req = [r \in Requests |-> [pc |-> "new", vm |-> 0, pair |-> <<None, None>>,
                                  crid |-> None, resp |-> 0, inserted |-> FALSE]]
    /\ vmHost = [v \in VMs |-> "hA"]
    /\ sched = [running_migrations |-> 0, read |-> 0, actual |-> 0, sent |-> 0]
    /\ runs = [m \in MigIds |-> 0]
    /\ overlapped = {}
    /\ retries = [m \in MigIds |-> 0]
    /\ timedOut = {}

\* Planner.__init__ (planner.py:9-13), the clock at 0
InitPlanner ==
    /\ now = 0
    /\ vm_cooldowns = [v \in PlannerVmIds |-> 0]
    /\ host_cooldowns = [h \in {PlannerHostIds[i] : i \in 1..Len(PlannerHostIds)} |-> 0]
    /\ emergency_migrations_per_host =
           [h \in {PlannerHostIds[i] : i \in 1..Len(PlannerHostIds)} |-> 0]
    /\ lastProposed = [v \in PlannerVmIds |-> -1]
    /\ proposals = [v \in PlannerVmIds |-> 0]
    /\ lastEmergency = [h \in {PlannerHostIds[i] : i \in 1..Len(PlannerHostIds)} |-> -1]

Init == InitMigration /\ InitPlanner /\ call = NoCall

\* the arguments of one application of select_best_destination
InitSelect == InitMigration /\ InitPlanner /\ call \in SelectInputs

\* the arguments of one application of can_receive_vm, or the worked example
InitReceive ==
    InitMigration /\ InitPlanner /\ call \in ReceiveInputs \cup {[op |-> "example"]}

\* the figures of one host the two overload predicates are applied to
InitOverload == InitMigration /\ InitPlanner /\ call \in OverloadInputs

\* the arguments of one application of is_live_migratable
InitPreflight == InitMigration /\ InitPlanner /\ call \in PreflightInputs

\* POST /migrations
ApiNext ==
    \/ \E r \in Requests, vm \in VMs, pair \in HostPairs, crid \in ClientRequestIds :
          create_migration_lookup(r, vm, pair, crid)
    \/ \E r \in Requests, outcome \in EnqueueOutcomes : create_migration_insert(r, outcome)

\* the worker up to the pre-flight call
WorkerNext ==
    \/ \E w \in Workers, m \in MigIds : Dequeue(w, m)
    \/ \E w \in Workers, m \in MigIds : LockTimeout(w, m)
    \/ \E w \in Workers : Claim(w)

Next ==
    \/ ApiNext
    \/ WorkerNext
    \/ \E w \in Workers : PreflightUnresolved(w)

Spec == Init /\ [][Next]_vars

NextPool ==
    \/ \E vm \in VMs, pair \in HostPairs, outcome \in EnqueueOutcomes :
          create_and_enqueue_migration(vm, pair, outcome)
    \/ WorkerNext
    \/ \E w \in Workers : PreflightUnresolved(w)

SpecPool == Init /\ [][NextPool]_vars

NextSched ==
    \/ ApiNext
    \/ WorkerNext
    \/ \E w \in Workers : PreflightUnresolved(w)
    \/ \E n \in 0..MaxPlan : submit_plan(n)

SpecSched == Init /\ [][NextSched]_vars

NextLinked ==
    \/ ApiNext
    \/ WorkerNext
    \/ \E w \in Workers : Preflight(w)
    \/ \E w \in Workers : OrchestratorRun(w)
    \/ \E w \in Workers : FastPath(w)
    \/ \E w \in Workers : PollOperation(w)
    \/ \E w \in Workers : PollTimeout(w)
    \/ \E vm \in VMs : ExpireLock(vm)

SpecLinked == Init /\ [][NextLinked]_vars

\* the worker of src/ with the task wrapper's exception path
NextRetry ==
    \/ ApiNext
    \/ WorkerNext
    \/ \E w \in Workers : PreflightUnresolved(w)
    \/ \E w \in Workers : UnexpectedError(w)

SpecRetry == Init /\ [][NextRetry]_vars

\* every path that writes a terminal status: create_and_enqueue_migration (as
\* many calls as NumRequests), the worker with the pre-flight resolved, the
\* orchestrator and the task wrapper's exception path
NextFinish ==
    \/ \E vm \in VMs, pair \in HostPairs, outcome \in EnqueueOutcomes :
          Len(migrations) < NumRequests /\ create_and_enqueue_migration(vm, pair, outcome)
    \/ WorkerNext
    \/ \E w \in Workers : Preflight(w)
    \/ \E w \in Workers : OrchestratorRun(w)
    \/ \E w \in Workers : FastPath(w)
    \/ \E w \in Workers : PollOperation(w)
    \/ \E w \in Workers : PollTimeout(w)
    \/ \E w \in Workers : UnexpectedError(w)

SpecFinish == Init /\ [][NextFinish]_vars

\* what a worker that marked a record running executes next: the task is one
\* sequential function and each call it makes returns or raises within its
\* timeout (xoa_client.py:14, 31, 38: timeout=20; orchestrator.py:105: POLL_TIMEOUT)
WorkerStep(w) ==
    \/ PreflightUnresolved(w)
    \/ Preflight(w)
    \/ OrchestratorRun(w)
    \/ FastPath(w)
    \/ PollOperation(w)
    \/ PollTimeout(w)

\* the workers running to the end of every task they have begun
NextRun ==
    \/ \E vm \in VMs, pair \in HostPairs, outcome \in EnqueueOutcomes :
          Len(migrations) < NumRequests /\ create_and_enqueue_migration(vm, pair, outcome)
    \/ WorkerNext
    \/ \E w \in Workers : WorkerStep(w)
    \/ \E vm \in VMs : ExpireLock(vm)

SpecRun == Init /\ [][NextRun]_vars /\ \A w \in Workers : WF_vars(WorkerStep(w))

\* the workers with a database that may refuse a commit inside run()
NextFaults ==
    \/ NextRun
    \/ \E w \in Workers : EventInsertFails(w)
    \/ \E w \in Workers : ProgressCommitFails(w)

SpecFaults == Init /\ [][NextFaults]_vars

\* workers whose orchestrator simulates, one simulation at a time
NextSimulate ==
    \/ \E vm \in VMs, pair \in HostPairs, outcome \in EnqueueOutcomes :
          Len(migrations) < NumRequests /\ create_and_enqueue_migration(vm, pair, outcome)
    \/ WorkerNext
    \/ \E w \in Workers : Preflight(w)
    \/ \E w \in Workers : (\A v \in Workers : wpc[v] # "simulate") /\ SimulatedRun(w)
    \/ \E w \in Workers : SimulateStep(w)

SpecSimulate == Init /\ [][NextSimulate]_vars

\* the workers, and callers asking for cancellation
NextCancel ==
    \/ NextRun
    \/ \E m \in MigIds, route \in CancelRoutes : CancelRequest(m, route)

SpecCancel == Init /\ [][NextCancel]_vars

\* POST /migrations with any source_host and target_host, and the worker of src/
NextCreate ==
    \/ \E r \in Requests, vm \in VMs, pair \in AnyHostPairs, crid \in ClientRequestIds :
          create_migration_lookup(r, vm, pair, crid)
    \/ \E r \in Requests, outcome \in EnqueueOutcomes : create_migration_insert(r, outcome)
    \/ WorkerNext
    \/ \E w \in Workers : PreflightUnresolved(w)

SpecCreate == Init /\ [][NextCreate]_vars

\* the scheduler's planner over time
NextPlanner ==
    \/ Tick
    \/ \E hosts \in HostSnapshots, vms \in VmSnapshots, max_plan \in 0..MaxPlan :
          PlanRebalance(hosts, vms, max_plan)
    \/ \E i \in 1..Len(PlannerHostIds), hosts \in HostSnapshots, vms \in VmSnapshots :
          PlanEmergency(PlannerHostIds[i], hosts, vms)

SpecPlanner == Init /\ [][NextPlanner]_vars

\* alerts for hosts that may hold four VMs
NextEmergency ==
    \/ Tick
    \/ \E i \in 1..Len(PlannerHostIds), hosts \in HostSnapshots,
             vms \in VmSnapshots \cup HeavyVmSnapshots :
          PlanEmergency(PlannerHostIds[i], hosts, vms)

SpecEmergency == Init /\ [][NextEmergency]_vars

\* alerts arriving at the scheduler service
NextAlert ==
    \/ Tick
    \/ \E host_id \in AlertHostIds, hosts \in HostSnapshots,
             vms \in VmSnapshots \cup HeavyVmSnapshots :
          handle_alert(host_id, hosts, vms, get_running_migrations_count)

SpecAlert == Init /\ [][NextAlert]_vars

\* alerts arriving while the controller answers the count request of
\* submit_plan (api_client.py:93-143) with any number up to the cap
NextAlertCap ==
    \/ Tick
    \/ \E host_id \in AlertHostIds, hosts \in HostSnapshots, vms \in VmSnapshots,
             current_running \in 0..MAX_CONCURRENT_MIGRATIONS :
          handle_alert(host_id, hosts, vms, current_running)

SpecAlertCap == Init /\ [][NextAlertCap]_vars

\* the periodic loop of the scheduler service
NextCycle ==
    \/ Tick
    \/ \E hosts \in HostSnapshots, vms \in VmSnapshots : run_periodic_cycle(hosts, vms)

SpecCycle == Init /\ [][NextCycle]_vars

\* periodic cycles over time on the draining snapshots
NextDrain ==
    \/ Tick
    \/ \E hosts \in DrainHostSnapshots, vms \in DrainVmSnapshots : PlanCycle(hosts, vms)

SpecDrain == Init /\ [][NextDrain]_vars

NextReceive == CanReceiveVm \/ ExamplePlan

SpecReceive == InitReceive /\ [][NextReceive]_vars

NextOverload == IsHostOverloaded

SpecOverload == InitOverload /\ [][NextOverload]_vars

NextPreflight == IsLiveMigratable

SpecPreflight == InitPreflight /\ [][NextPreflight]_vars

NextSelect == SelectBestDestination

SpecSelect == InitSelect /\ [][NextSelect]_vars

\* ================================================================ claims
RowsOfVm(vm, statuses) ==
    {mid \in Ids : LET r == migrations[mid] IN r.vm_id = vm /\ r.status \in statuses}

RowsOfRequestId(crid) == {mid \in Ids : LET r == migrations[mid] IN r.client_request_id = crid}

DoneWith(crid) == {r \in Requests : req[r].pc = "done" /\ req[r].crid = crid}

Min(a, b) == IF a <= b THEN a ELSE b

\* positions of _run_migration_sync inside the `with RedisLock` block
GuardedPcs == {"locked", "precheck", "run", "fast", "poll"}
InGuardedSection(vm) == {w \in Workers : wpc[w] \in GuardedPcs /\ VmOf(w) = vm}

\* C1: every VM has at most one Migration in a non-terminal status (queued,
\* validating, running, finalizing), in every reachable state.
C1_AtMostOneNonTerminalPerVm ==
    \A vm \in VMs : Cardinality(RowsOfVm(vm, NonTerminalStatuses)) <= 1

\* C2: once a Migration's status is completed, failed or cancelled, no step
\* changes it.
C2_TerminalStatusNeverChanges ==
    [][\A i \in Ids : migrations[i].status \in TerminalStatuses
                        => migrations'[i].status = migrations[i].status]_vars

\* C3: of the workers that dequeue the same migration id, at most one marks it
\* running; every other one returns without mutating the record.
C3_MarkedRunningAtMostOnce == \A m \in MigIds : runs[m] <= 1

\* C4: for every VM, at most one worker at a time executes the section guarded
\* by lock:migration:vm:<vm>, however long the section lasts.
C4_LockIsMutex == \A vm \in VMs : Cardinality(InGuardedSection(vm)) <= 1

\* the creates that carried crid, none of them racing another, agree on the
\* migration id, inserted one row between them and left one row with that id
SequentialCreatesAgree(crid) ==
    (crid \notin overlapped /\ DoneWith(crid) # {}) =>
        /\ \A r1, r2 \in DoneWith(crid) : req[r1].resp = req[r2].resp
        /\ Cardinality({r \in DoneWith(crid) : req[r].inserted}) = 1
        /\ Cardinality(RowsOfRequestId(crid)) = 1

\* a create that starts when a row with its client_request_id is committed
\* answers with that row, and neither writes a row nor enqueues a task
RepeatedCreateIsNoOp ==
    \A r \in Requests :
        (/\ req[r].pc = "new" /\ req'[r].pc # "new"
         /\ Truthy(req'[r].crid)
         /\ RowsOfRequestId(req'[r].crid) # {})
        => /\ req'[r].pc = "done"
           /\ req'[r].resp \in RowsOfRequestId(req'[r].crid)
           /\ ~req'[r].inserted
           /\ migrations' = migrations
           /\ queue' = queue

\* C5 (as amended): two sequential create calls carrying the same non-empty
\* client_request_id return the same migration_id, leave exactly one row with
\* that client_request_id, and the second call changes no record and enqueues
\* nothing.
C5_SequentialCreatesIdempotent ==
    /\ [](\A crid \in ClientRequestIds : Truthy(crid) => SequentialCreatesAgree(crid))
    /\ [][RepeatedCreateIsNoOp]_vars

\* C5 witness: two creates with "req-1" ran one after the other; the first
\* inserted the row and the second answered with it.
C5_Witness ==
    \E r1, r2 \in Requests :
        /\ r1 # r2
        /\ {r1, r2} \subseteq DoneWith("req-1")
        /\ "req-1" \notin overlapped
        /\ req[r1].inserted /\ ~req[r2].inserted
        /\ req[r2].resp = req[r1].resp

\* C5 (as claimed): the same for every non-null client_request_id, the empty
\* string included.
C5_NonNullCreatesIdempotent ==
    \A crid \in ClientRequestIds : crid # None => SequentialCreatesAgree(crid)

\* C6: requests carrying the same client_request_id, under every interleaving
\* of their lookup and insert steps, return the same migration_id and leave
\* exactly one row.
C6_ConcurrentCreatesOneRow ==
    \A crid \in ClientRequestIds :
        (Truthy(crid) /\ DoneWith(crid) # {}) =>
            /\ \A r1, r2 \in DoneWith(crid) : req[r1].resp = req[r2].resp
            /\ Cardinality(RowsOfRequestId(crid)) = 1

\* C7: the progress values written to a Migration never decrease and stay in
\* [0,100].
C7_ProgressNonDecreasing ==
    [][\A i \in Ids : /\ migrations'[i].progress >= migrations[i].progress
                      /\ migrations'[i].progress \in 0..100]_vars

\* C8: with NumWorkers workers, the number of Migrations whose status is
\* running is at most min(NumWorkers, MAX_CONCURRENT_MIGRATIONS).
C8_RunningWithinCap ==
    Cardinality({mid \in Ids : LET r == migrations[mid] IN r.status = "running"})
        <= Min(NumWorkers, MAX_CONCURRENT_MIGRATIONS)

\* C9: the count submit_plan reads equals the store's number of non-terminal
\* migrations, and it requests nothing while that number is at or above
\* MAX_CONCURRENT_MIGRATIONS.
C9_SubmitRespectsCap ==
    /\ sched.read = sched.actual
    /\ sched.sent > 0 => sched.actual < MAX_CONCURRENT_MIGRATIONS

\* C10: the VM of a completed Migration is on its target_host, the VM of a
\* failed Migration is still on its source_host.
C10_HostFollowsOutcome ==
    \A i \in Ids :
        /\ migrations[i].status = "completed"
              => vmHost[migrations[i].vm_id] = migrations[i].target_host
        /\ migrations[i].status = "failed"
              => vmHost[migrations[i].vm_id] = migrations[i].source_host

\* the edges of the lifecycle state machine
LifecycleEdges ==
    {<<"queued", "validating">>, <<"validating", "running">>, <<"validating", "failed">>,
     <<"running", "finalizing">>, <<"finalizing", "completed">>, <<"finalizing", "failed">>}
    \cup {<<s, "cancelled">> : s \in NonTerminalStatuses}

\* C11: every change of a Migration's status is an edge of the lifecycle state
\* machine (queued->validating, validating->running|failed, running->finalizing,
\* finalizing->completed|failed, non-terminal->cancelled).
C11_StatusFollowsLifecycle ==
    [][\A i \in Ids : migrations'[i].status # migrations[i].status
          => <<migrations[i].status, migrations'[i].status>> \in LifecycleEdges]_vars

\* a step in which a task message is consumed and no worker enters the guarded
\* section: the wait for the lock timed out
LockTimeoutStep ==
    /\ \E m \in MigIds : queue'[m] < queue[m]
    /\ wpc' = wpc /\ wmig' = wmig

\* C12: a lock-acquisition timeout leaves the Migration record as it was:
\* status (queued stays queued, never failed), progress, finished_at and
\* details are not modified.
C12_LockTimeoutLeavesRecord == [][LockTimeoutStep => migrations' = migrations]_vars

\* C12 witness: the task of a queued migration timed out on the lock and the
\* record is still queued, never marked running, with nothing finished.
C12_Witness ==
    \E m \in Ids :
        /\ m \in timedOut
        /\ runs[m] = 0
        /\ migrations[m].status = "queued"
        /\ migrations[m].progress = 0 /\ ~migrations[m].finished_at

\* C13: a queued migration whose task timed out on the lock, with retries left,
\* has its task scheduled again (or a worker is on it): it can still be run.
C13_LockTimeoutIsRetried ==
    \A m \in Ids :
        (/\ m \in timedOut
         /\ migrations[m].status = "queued"
         /\ retries[m] < max_retries)
        => (queue[m] > 0 \/ \E w \in Workers : wmig[w] = m)

\* C14: no retry is scheduled for a Migration whose status is terminal, and a
\* record in a terminal status is not run again.
C14_NoRetryAfterTerminal ==
    [][\A m \in Ids :
          /\ retries'[m] > retries[m] => migrations'[m].status \notin TerminalStatuses
          /\ runs'[m] > runs[m] => migrations[m].status \notin TerminalStatuses]_vars

\* C15: in every reachable state a Migration whose status is completed, failed
\* or cancelled has finished_at set, whichever path wrote the status.
C15_TerminalHasFinishedAt ==
    \A i \in Ids : migrations[i].status \in TerminalStatuses => migrations[i].finished_at

\* C15 witness: one record completed by a worker, another failed by the enqueue
\* error of create_and_enqueue_migration, both with finished_at.
C15_Witness ==
    \E i, j \in Ids :
        /\ migrations[i].status = "completed" /\ migrations[i].finished_at
        /\ migrations[j].status = "failed" /\ migrations[j].error = "enqueue_failed"
        /\ migrations[j].finished_at

\* C16: no Migration record has source_host equal to target_host, or a
\* source_host or target_host that is not a known host.
C16_CreatedHostsValid ==
    \A i \in Ids :
        /\ migrations[i].source_host # migrations[i].target_host
        /\ migrations[i].source_host \in KnownHosts
        /\ migrations[i].target_host \in KnownHosts

\* the plan of plan_rebalance names no VM that was protected or in vm-cooldown
\* when the cycle started
ProposalsAdmissible ==
    call.op = "plan_rebalance" =>
        VmsIn(call.plan) \cap (call.cooling \cup call.protected) = {}

\* a VM is proposed once per cycle, and a VM proposed before is proposed again
\* only when MIGRATION_COOLDOWN has passed since
NoEarlyReproposal ==
    \A v \in PlannerVmIds :
        proposals'[v] > proposals[v] =>
            /\ proposals'[v] = proposals[v] + 1
            /\ lastProposed[v] >= 0 => now >= lastProposed[v] + MIGRATION_COOLDOWN

\* C17: every proposal of plan_rebalance is for a VM neither protected nor in
\* vm-cooldown at the start of the cycle, and a VM proposed in one cycle is not
\* proposed by a later cycle before its MIGRATION_COOLDOWN has expired.
C17_ProposalsRespectCooldown == []ProposalsAdmissible /\ [][NoEarlyReproposal]_vars

\* C17 witness: a cycle that met a cooling or protected VM and proposed a VM
\* for the second time, its cooldown over.
C17_Witness ==
    /\ call.op = "plan_rebalance"
    /\ call.cooling # {} /\ call.protected # {}
    /\ \E v \in VmsIn(call.plan) : proposals[v] = 2

\* the hosts other than the source that can_receive_vm lets in
Admissible(c) ==
    {i \in 1..Len(c.hosts) : /\ c.hosts[i].host_id # c.exclude_host_id
                              /\ can_receive_vm(c.hosts[i], c.vm_cpu_est, 0)}

\* what select_best_destination owes its caller; the score is in thousandths,
\* so 0.05 is 50
SelectionCorrect(c) ==
    LET adm  == Admissible(c)
        sc(i) == host_score(c.hosts[i])
    IN  /\ (c.result = 0) <=> (adm = {})
        /\ c.result # 0 =>
              /\ c.result \in adm
              /\ \/ \A j \in adm : sc(c.result) <= sc(j)
                 \/ /\ \A j \in adm : sc(c.result) <= sc(j) + 50
                    /\ Cardinality({j \in adm : sc(j) < sc(c.result)}) < 2

C19_AtMostMaxPlan ==
    call.op = "plan_rebalance" => Len(call.plan) <= call.max_plan

\* the rolling window of the emergency cap; the code names no length, the
\* longest cooldown stands for it
EmergencyWindow == MIGRATION_COOLDOWN

\* C20: plan_emergency proposes nothing for a host that had its
\* MAX_EMERGENCY_MIGRATIONS_PER_HOST (one) emergency proposal within the window,
\* and proposes again once the window and the host-cooldown have passed and a
\* VM of the host can be placed.
C20_EmergencyCapRolls ==
    [][call'.op = "plan_emergency" =>
          LET h == call'.host_id
          IN  /\ (/\ MAX_EMERGENCY_MIGRATIONS_PER_HOST = 1
                  /\ lastEmergency[h] >= 0
                  /\ now < lastEmergency[h] + EmergencyWindow)
                 => call'.plan = <<>>
              /\ (/\ lastEmergency[h] >= 0
                  /\ now >= lastEmergency[h] + EmergencyWindow
                  /\ ~in_host_cooldown(host_cooldowns, h)
                  /\ call'.movable)
                 => call'.plan # <<>>]_vars

\* C21: when plan_emergency may act (the alert host is not in host-cooldown and
\* its cap is not reached) it returns exactly one proposal, for the heaviest of
\* all the host's non-protected, non-cooling VMs that have an admissible
\* destination, and no proposal only when none of them has one.
C21_EmergencyPicksHeaviestPlaceable ==
    [][(/\ call'.op = "plan_emergency"
        /\ ~in_host_cooldown(host_cooldowns, call'.host_id)
        /\ emergency_migrations_per_host[call'.host_id] < MAX_EMERGENCY_MIGRATIONS_PER_HOST)
       => IF call'.best = None
          THEN call'.plan = <<>>
          ELSE Len(call'.plan) = 1 /\ call'.plan[1][1] = call'.best]_vars

\* C22: when the alert's host is in the fetched snapshot, handle_alert asks for
\* the host to be throttled, for 300 seconds, exactly when plan_emergency
\* returned no proposal, and a throttle call that fails is not raised to the
\* caller: the handler still answers "throttled".
C22_ThrottleIffNoProposal ==
    (call.op = "handle_alert" /\ call.status \notin {"raised", "host_not_found"})
    => /\ call.throttle.called <=> (call.plan = <<>>)
       /\ call.throttle.called =>
             /\ call.throttle.host_id = call.host_id
             /\ call.throttle.duration_seconds = 300
             /\ call.throttle.failed => (~call.raised /\ call.status = "throttled")
       /\ ~call.throttle.called => call.status = "migration_requested"

C22_Witness ==
    /\ call.op = "handle_alert"
    /\ call.status = "throttled"
    /\ call.throttle.called
    /\ call.throttle.failed
    /\ \E h \in DOMAIN host_cooldowns : host_cooldowns[h] > 0

\* the hosts in host-cooldown when the planner is called
CoolingHosts == {PlannerHostIds[i] : i \in {k \in 1..Len(PlannerHostIds) :
                                              in_host_cooldown(host_cooldowns, PlannerHostIds[k])}}

\* C23: a host that is in host-cooldown when the planner is called appears in
\* no proposal of that call, neither as the source of a periodic or emergency
\* proposal nor as the destination of one.
C23_CoolingHostNotInvolved ==
    [][/\ call'.op = "plan_rebalance" =>
            \A k \in 1..Len(call'.plan) :
                /\ call'.sources[k] \notin CoolingHosts
                /\ call'.plan[k][2] \notin CoolingHosts
       /\ call'.op = "plan_emergency" =>
            \A k \in 1..Len(call'.plan) :
                /\ call'.host_id \notin CoolingHosts
                /\ call'.plan[k][2] \notin CoolingHosts]_vars

\* C24: a Migration a worker has set to running reaches a terminal status
\* whatever the driver answers: the poll loop makes at most MaxPolls rounds,
\* and the step that finds POLL_TIMEOUT elapsed leaves the record failed.
C24_RunningReachesTerminal ==
    /\ \A m \in MigIds :
          (m \in Ids /\ migrations[m].status = "running")
             ~> (m \in Ids /\ migrations[m].status \in TerminalStatuses)
    /\ [](\A w \in Workers : wpolls[w] <= MaxPolls)
    /\ [][\A w \in Workers :
            (wpc[w] = "poll" /\ wpolls[w] = MaxPolls /\ wpc'[w] # "poll")
               => migrations'[wmig[w]].status = "failed"]_vars

\* C24 witness: a record left failed by the poll loop's timeout
C24_Witness ==
    \E m \in Ids : /\ migrations[m].status = "failed"
                    /\ migrations[m].error = "op_failed"
                    /\ migrations[m].progress \in PollProgress
                    /\ \A w \in Workers : wmig[w] # m

\* C25: an error inside MigrationOrchestrator.run, a failure to record an event
\* included, is never raised out of run: run returns a result, and the failure
\* is reflected in an event and in the record's final status.
C25_RunNeverRaises ==
    call.op = "run" =>
        /\ ~call.raised
        /\ call.event = "error"

\* C26: when no endpoint and payload shape is accepted by the hypervisor, the
\* Migration ends failed with details.error = "no_supported_endpoint" and the
\* list of attempts in details.tried, and the VM's host_id is what it was.
C26_NoEndpointKeepsTried ==
    [][\A m \in Ids :
          (/\ migrations[m].status = "running"
           /\ migrations'[m].status # "running"
           /\ migrations'[m].error = "no_supported_endpoint")
          => /\ migrations'[m].status = "failed"
             /\ migrations'[m].tried # None
             /\ vmHost' = vmHost]_vars

\* C30: a progress update that cannot be persisted does not fail the migration
\* and does not leave _update_progress as an exception; it is recorded as a
\* warning-level event and the orchestrator goes on.
C30_ProgressFailureIsWarning ==
    (call.op = "_update_progress" /\ ~call.persisted)
    => /\ ~call.raised
       /\ ~call.failed
       /\ call.event = "warning"

\* C27: in simulate mode the orchestrator makes no call to the hypervisor,
\* stores the progress values 5, 25, 50, 80, 100 in that order and returns ok,
\* whatever the hypervisor would have answered.
C27_SimulateAlwaysSucceeds ==
    call.op = "simulate" =>
        /\ call.driver_calls = 0
        /\ call.result # "not_ok"
        /\ Len(call.progress) <= Len(SimProgress)
        /\ \A k \in 1..Len(call.progress) : call.progress[k] = SimProgress[k]
        /\ call.result = "ok" => call.progress = SimProgress

\* C28: the pre-flight check declares a VM eligible only if its power state is
\* "running" and the guest reports tools installed, or its boot policy is
\* empty, or its platform record has a PV marker; a VM whose power state is
\* missing, empty or not running is never eligible.
C28_EligibleOnlyWhenRunning ==
    (call.op = "is_live_migratable" /\ call.result)
    => /\ call.fetched
       /\ call.params.power_state \in {"running", "Running"}
       /\ \/ call.params.guest_tools
          \/ call.params.hvm_boot_policy \in {None, ""}
          \/ call.params.pv_platform

\* C29: a cancel request on a non-terminal Migration leads to the status
\* cancelled; for a Migration that is not running the request itself makes the
\* transition.
C29_CancelRequestCancels ==
    [][(/\ call' # call
        /\ call'.op = "cancel"
        /\ migrations[call'.id].status \notin TerminalStatuses \cup {"running"})
       => migrations'[call'.id].status = "cancelled"]_vars

\* C31: in submit_plan a request that fails skips only its proposal: the failed
\* request adds nothing to the counter compared with the cap, every proposal of
\* the plan is attempted as long as the counter is below the cap, and a cycle
\* that raised leaves the periodic loop going.
C31_FailedProposalIsSkipped ==
    call.op = "run_periodic_cycle" =>
        /\ call.next = "sleep"
        /\ ~call.raised =>
              /\ call.counter = call.read + (call.sent - call.failures)
              /\ call.sent <= Len(call.plan)
              /\ call.counter < MAX_CONCURRENT_MIGRATIONS => call.sent = Len(call.plan)

\* C31 witness: a cycle whose plan has two proposals, the first request failed
C31_Witness ==
    /\ call.op = "run_periodic_cycle"
    /\ Len(call.plan) = 2
    /\ call.failures = 2
    /\ call.sent = 2

C33_OverloadPredicatesAgree ==
    call.op = "is_host_overloaded" =>
        /\ call.scheduler <=> (call.cpu_percent >= 80 \/ call.mem_percent >= 85)
        /\ call.controller <=> call.scheduler

\* C34: can_receive_vm is false exactly when the projected cpu reaches LOW_CPU
\* (60), or the projected mem reaches LOW_MEM (70), or the host's status is
\* anything other than UP, a missing or empty status included; and on the
\* worked example the periodic plan is exactly [(v2, B)].
C34_CanReceiveExact ==
    /\ call.op = "can_receive_vm" =>
          (~call.result <=> \/ call.cpu_percent + call.est_cpu >= 60
                            \/ call.mem_percent + call.est_mem >= 70
                            \/ call.status \notin {"UP", "up"})
    /\ call.op = "plan_example" => call.plan = <<<<"v2", "hB">>>>

\* cpu_percent of a VM, and of a host, in the snapshot of a cycle
CpuOfVm(c, vm_uuid) ==
    c.vms[CHOOSE i \in 1..Len(c.vms) : c.vms[i].vm_uuid = vm_uuid].cpu_percent

CpuOfHost(c, host_id) ==
    c.hosts[CHOOSE i \in 1..Len(c.hosts) : c.hosts[i].host_id = host_id].cpu_percent

\* cpu_percent of the VMs the first k proposals move to host h, and off host h
RECURSIVE ProposedTo(_, _, _)
ProposedTo(c, h, k) ==
    IF k = 0 THEN 0
    ELSE ProposedTo(c, h, k - 1)
         + (IF c.plan[k][2] = h THEN CpuOfVm(c, c.plan[k][1]) ELSE 0)

RECURSIVE ProposedOff(_, _, _)
ProposedOff(c, h, k) ==
    IF k = 0 THEN 0
    ELSE ProposedOff(c, h, k - 1)
         + (IF HostOf(c.vms, c.plan[k][1]) = h THEN CpuOfVm(c, c.plan[k][1]) ELSE 0)

Destinations(c) == {c.plan[k][2] : k \in 1..Len(c.plan)}

C36_PreflightCallAnswers ==
    \A m \in Ids : migrations[m].error # "migrate_check_failed"

\* C37: a worker that releases its lock removes the key only if it is still
\* the holder: the key another worker set after the first one's had expired is
\* still there after the release.
C37_ReleaseOnlyOwnLock ==
    [][\A w \in Workers :
          (wpc[w] # "idle" /\ wpc'[w] = "idle" /\ lockKey[VmOf(w)] \notin {0, w})
             => lockKey'[VmOf(w)] = lockKey[VmOf(w)]]_vars

\* C38: whenever plan_emergency has consumed planner state for an alert (it
\* returned a proposal, having set both cooldowns and counted the emergency),
\* handle_alert sends the create request for that proposal: the proposal is
\* not dropped by the concurrency cap.
C38_EmergencyProposalIsSent ==
    (call.op = "handle_alert" /\ call.plan # <<>>) => call.sent = Len(call.plan)

\* the source host of the k-th proposal of a cycle, with the cpu_percent of the
\* VMs the earlier proposals moved off it subtracted (not below 0)
SimulatedSource(c, k) ==
    LET src == HostOf(c.vms, c.plan[k][1])
        h   == c.hosts[CHOOSE i \in 1..Len(c.hosts) : c.hosts[i].host_id = src]
    IN  [h EXCEPT !.cpu_percent = Max(0, h.cpu_percent - ProposedOff(c, src, k - 1))]

SourcesOf(c) ==
    IF c.op = "plan_emergency"
    THEN (IF c.plan = <<>> THEN {} ELSE {c.host_id})
    ELSE {c.sources[k] : k \in 1..Len(c.sources)}

\* C40: a planning call that returns no proposal leaves vm_cooldowns,
\* host_cooldowns and emergency_migrations_per_host as they were; a call that
\* returns proposals sets the cooldown of each proposed VM and of each
\* proposal's source host, and no other cooldown.
C40_PlannerFrame ==
    [][call'.op \in {"plan_rebalance", "plan_emergency"} =>
          /\ call'.plan = <<>> =>
                 UNCHANGED <<vm_cooldowns, host_cooldowns, emergency_migrations_per_host>>
          /\ \A v \in DOMAIN vm_cooldowns :
                 vm_cooldowns'[v] = IF v \in VmsIn(call'.plan)
                                    THEN now + MIGRATION_COOLDOWN ELSE vm_cooldowns[v]
          /\ \A h \in DOMAIN host_cooldowns :
                 host_cooldowns'[h] = IF h \in SourcesOf(call')
                                      THEN now + HOST_COOLDOWN ELSE host_cooldowns[h]]_vars

\* C40 witness: an emergency call returned no proposal, for want of a
\* destination, for a host that was neither cooling nor at its cap, while
\* cooldowns of an earlier plan were still running
C40_Witness ==
    /\ call.op = "plan_emergency" /\ call.plan = <<>>
    /\ host_cooldowns[call.host_id] = 0
    /\ emergency_migrations_per_host[call.host_id] = 0
    /\ \E h \in DOMAIN host_cooldowns : host_cooldowns[h] > now
    /\ \E v \in DOMAIN vm_cooldowns : vm_cooldowns[v] > now

====
